---- MODULE Spec2Model ----
(***************************************************************************)
(* Model of typescript-error-reporter-action: the type-check driver        *)
(* (src/index.ts) and the reporter / annotation uploader (src/reporter.ts, *)
(* held here as src/unnamed/part_000).                                     *)
(*                                                                         *)
(* Representation.  A JavaScript string that the code scans or parses is   *)
(* a sequence of one-character strings.  A path is a sequence of segments. *)
(* An optional value (undefined or v) is the sequence <<>> or <<v>>.       *)
(***************************************************************************)
EXTENDS Integers, Sequences, FiniteSets

\* ------------------------------------------------------------------ bounds
MaxLen == 5     \* longest item sequence handed to batch on its own
MaxSize == 3    \* largest batch size handed to batch on its own
MaxText == 4    \* longest file text handed to parseLocation on its own
MaxStage == 2   \* most syntactic / options / global diagnostics of a program
MaxSem == 6     \* most semantic diagnostics of a program
MaxExit == 4    \* largest ExitStatus a solution build returns

BatchLimit == 2  \* the uploader's batch size: the code's 50, scaled down so
                 \* that a handful of diagnostics fills several batches

\* --------------------------------------------------------------- constants
NaN == 0 - 1       \* Number(undefined); no line number is negative

\* ----------------------------------------------------------------- helpers
Range(s) == {s[i] : i \in 1..Len(s)}

RECURSIVE Concat(_)
Concat(ss) == IF ss = <<>> THEN <<>> ELSE Head(ss) \o Concat(Tail(ss))

SeqsUpTo(S, n) == UNION {[1..k -> S] : k \in 0..n}

\* `${n}` for a non-negative integer: its decimal digits
RECURSIVE ToString(_)
ToString(n) ==
  IF n < 10 THEN <<n>> ELSE Append(ToString(n \div 10), n % 10)

\* Number(s) for a string of decimal digits; Number("") is 0
RECURSIVE Number(_)
Number(s) ==
  IF s = <<>> THEN 0 ELSE 10 * Number(SubSeq(s, 1, Len(s) - 1)) + s[Len(s)]

\* Number(x) for an optional digit string: Number(undefined) is NaN
NumberOpt(x) == IF x = <<>> THEN NaN ELSE Number(x[1])

\* ------------------------------------------------------------ parseLocation
\* mutant: the column is not reset at a newline
RECURSIVE parseLocationLoopNoReset(_, _, _, _, _)
parseLocationLoopNoReset(content, position, i, l, c) ==
  IF i < Len(content) /\ i < position
  THEN IF content[i + 1] = "\n"
       THEN parseLocationLoopNoReset(content, position, i + 1, l + 1, c)
       ELSE parseLocationLoopNoReset(content, position, i + 1, l, c + 1)
  ELSE [line |-> l, column |-> c]

RECURSIVE parseLocationLoop(_, _, _, _, _)
parseLocationLoop(content, position, i, l, c) ==
  IF i < Len(content) /\ i < position
  THEN IF content[i + 1] = "\n"
       THEN parseLocationLoop(content, position, i + 1, l + 1, 0)
       ELSE parseLocationLoop(content, position, i + 1, l, c + 1)
  ELSE [line |-> l, column |-> c]

parseLocation(content, position) == parseLocationLoop(content, position, 0, 1, 0)

\* ------------------------------------------------------------ readProperties
\* {}: the object with no property
EmptyObject == <<>>

Has(obj, key) == key \in DOMAIN obj

\* !start: undefined and 0 are both falsy
Falsy(start) == start = <<>> \/ start[1] = 0

readProperties(d) ==
  LET fileName == IF d.file = <<>> THEN <<>> ELSE d.file[1].fileName
  IN IF fileName = <<>> THEN EmptyObject
     ELSE IF Falsy(d.start) THEN [file |-> fileName]
     ELSE LET loc == parseLocation(d.file[1].text, d.start[1])
          IN [file |-> fileName,
              line |-> ToString(loc.line),
              col |-> ToString(loc.column)]

\* --------------------------------------------------------------------- batch
\* mutant: unshift in place of push
batchStepUnshift(size, batches, input) ==
  LET current == <<input>> \o batches[Len(batches)]
      pushed == [batches EXCEPT ![Len(batches)] = current]
  IN IF Len(current) = size THEN Append(pushed, <<>>) ELSE pushed

batchStep(size, batches, input) ==
  LET current == Append(batches[Len(batches)], input)
      pushed == [batches EXCEPT ![Len(batches)] = current]
  IN IF Len(current) = size THEN Append(pushed, <<>>) ELSE pushed

RECURSIVE batchReduce(_, _, _)
batchReduce(size, batches, inputs) ==
  IF inputs = <<>> THEN batches
  ELSE batchReduce(size, batchStep(size, batches, Head(inputs)), Tail(inputs))

batch(size, inputs) == batchReduce(size, << <<>> >>, inputs)

\* ------------------------------------------------- the world of one CI run
\* context.repo.repo and process.env.RUNNER_WORKSPACE
repo == "repo"
RUNNER_WORKSPACE == <<"home", "runner", "work", "repo">>

\* A source file inside the checkout and one outside it (a library file).
\* FileA's text is "a\nbb\nccc".
FileA == [fileName |-> RUNNER_WORKSPACE \o <<repo, "src", "a.ts">>,
          text |-> <<"a", "\n", "b", "b", "\n", "c", "c", "c">>]
FileB == [fileName |-> <<"usr", "lib", "lib.d.ts">>,
          text |-> <<"x", "\n", "\n", "y">>]

Flat(text) == [chain |-> FALSE, messageText |-> text, next |-> <<>>]
Chain(text, next) == [chain |-> TRUE, messageText |-> text, next |-> next]

\* The shapes a compiler diagnostic takes: with or without a file, with or
\* without an offset (offset 0 and an offset past the text included), each
\* category, flat and chained messages.
Shapes ==
  << [category |-> "Error", file |-> <<FileA>>, start |-> <<4>>,
      messageText |-> Flat("Type 'string' is not assignable")],
     [category |-> "Error", file |-> <<FileA>>, start |-> <<0>>,
      messageText |-> Chain("No overload matches", <<"Overload 1 of 2">>)],
     [category |-> "Error", file |-> <<>>, start |-> <<>>,
      messageText |-> Flat("Cannot find global type")],
     [category |-> "Warning", file |-> <<FileB>>, start |-> <<2>>,
      messageText |-> Flat("Unused label")],
     [category |-> "Suggestion", file |-> <<FileA>>, start |-> <<>>,
      messageText |-> Flat("File is a CommonJS module")],
     [category |-> "Message", file |-> <<FileB>>, start |-> <<9>>,
      messageText |-> Chain("Did you mean", <<"x", "y">>)] >>

\* The i-th diagnostic of a stage: shapes in rotation, told apart by code.
\* The code's leading digit tells the stage, as the compiler's codes do.
Diag(stage, i) ==
  LET s == Shapes[((i - 1) % Len(Shapes)) + 1]
  IN [category |-> s.category, file |-> s.file, start |-> s.start,
      code |-> stage * 1000 + i, messageText |-> s.messageText]

\* program.getSyntacticDiagnostics() etc. of a program with n diagnostics of
\* that stage.  Options and global diagnostics overlap (the same diagnostic is
\* reported by both); semantic diagnostics arrive in checker order, not sorted.
getSyntacticDiagnostics(n) == [i \in 1..n |-> Diag(1, i)]
getOptionsDiagnostics(n) == [i \in 1..n |-> Diag(5, i + 1)]
getGlobalDiagnostics(n) == [i \in 1..n |-> Diag(5, i + 2)]
getSemanticDiagnostics(n) == [i \in 1..n |-> Diag(2, n + 1 - i)]

\* ---------------------------------------------- sortAndDeduplicateDiagnostics
\* compareDiagnostics: by file path (no file first), then offset (none first),
\* then code.
FileRank(d) ==
  IF d.file = <<>> THEN 0 ELSE IF d.file[1] = FileA THEN 1 ELSE 2
StartRank(d) == IF d.start = <<>> THEN 0 ELSE d.start[1] + 1

DiagLess(a, b) ==
  \/ FileRank(a) < FileRank(b)
  \/ FileRank(a) = FileRank(b) /\ StartRank(a) < StartRank(b)
  \/ FileRank(a) = FileRank(b) /\ StartRank(a) = StartRank(b) /\ a.code < b.code

\* d put at its place in a sorted sequence, unless it is there already
insertSorted(sorted, d) ==
  LET k == Cardinality({i \in 1..Len(sorted) : DiagLess(sorted[i], d)})
  IN IF k < Len(sorted) /\ sorted[k + 1] = d THEN sorted
     ELSE SubSeq(sorted, 1, k) \o <<d>> \o SubSeq(sorted, k + 1, Len(sorted))

RECURSIVE sortAndDeduplicateDiagnostics(_)
sortAndDeduplicateDiagnostics(ds) ==
  IF ds = <<>> THEN <<>>
  ELSE insertSorted(sortAndDeduplicateDiagnostics(Tail(ds)), Head(ds))

\* ------------------------------------------------------- performCompilation
\* The fallback chain over the program's diagnostics.
\* mutant: the semantic diagnostics are collected whenever the program parses
collectNoGlobalStop(syntactic, options, global, semantic) ==
  IF Len(syntactic) = 0 THEN options \o global \o semantic ELSE syntactic

collect(syntactic, options, global, semantic) ==
  IF Len(syntactic) = 0
  THEN IF Len(options \o global) = 0 THEN semantic ELSE options \o global
  ELSE syntactic

\* ts line/character of an offset: both 0-based
getLineAndCharacterOfPosition(text, start) ==
  LET loc == parseLocation(text, start)
  IN [line |-> loc.line - 1, character |-> loc.column]

\* One console.warn line of the forEach; `as DiagnosticMessageChain` is a
\* cast, so the .messageText of a flat string is undefined.
consoleLine(d) ==
  LET start == IF Falsy(d.start) THEN 0 ELSE d.start[1]
      lc == getLineAndCharacterOfPosition(d.file[1].text, start)
  IN [file |-> d.file[1].fileName, line |-> lc.line, character |-> lc.character,
      message |-> IF d.messageText.chain THEN d.messageText.messageText
                  ELSE "undefined"]

consoleLines(ds) ==
  LET withFile == {i \in 1..Len(ds) : ds[i].file # <<>>}
      nth(k) == CHOOSE i \in withFile : Cardinality({j \in withFile : j < i}) = k - 1
  IN [k \in 1..Cardinality(withFile) |-> consoleLine(ds[nth(k)])]

\* -------------------------------------------------------------- annotations
getAnnotationLevel(d) ==
  CASE d.category = "Error" -> "failure"
    [] d.category = "Warning" -> "warning"
    [] OTHER -> "notice"

\* ts.flattenDiagnosticMessageText(messageText, '\n'): the lines of the text
flattenDiagnosticMessageText(m) == <<m.messageText>> \o m.next

\* file.replace(`${RUNNER_WORKSPACE}/${repo}/`, ''); every path of the model
\* holds the prefix at its start or not at all
IsPrefix(p, s) == Len(p) <= Len(s) /\ SubSeq(s, 1, Len(p)) = p
stripWorkspace(file) ==
  LET prefix == RUNNER_WORKSPACE \o <<repo>>
  IN IF IsPrefix(prefix, file) THEN SubSeq(file, Len(prefix) + 1, Len(file))
     ELSE file

annotationOf(d) ==
  LET props == readProperties(d)
      file == IF Has(props, "file") THEN props.file ELSE <<>>
      line == IF Has(props, "line") THEN <<props.line>> ELSE <<>>
  IN [path |-> stripWorkspace(file),
      start_line |-> NumberOpt(line),
      end_line |-> NumberOpt(line),
      annotation_level |-> getAnnotationLevel(d),
      message |-> flattenDiagnosticMessageText(d.messageText)]

\* ------------------------------------------------------------------- state
VARIABLES
  inputs,        \* the run's configuration: project, options, action inputs, context
  pc,            \* main: "start", "done"; "off" when only a function is exercised
  program,       \* the diagnostics the compiler holds for the program, by stage
  all,           \* performCompilation: the collected diagnostics, before dedup
  diagnostics,   \* performCompilation: sorted and deduplicated
  errors,        \* typecheck: <<>> until computed, then <<count>>
  console,       \* the console.warn lines of performCompilation
  foundLog,      \* the "Found N errors!" lines logged, by N
  failed,        \* the setFailed calls
  upPc,          \* uploader: "idle", "create" (awaiting checks.create), "resolved"
  checkRunId,    \* uploader: <<>> or <<id>>
  updates,       \* the checks.update calls issued, by batch
  batched,       \* uploader: batchedAnnotations, <<>> before the batching
  remoteRuns,    \* remote: the check runs created
  remoteUpdates, \* remote: the batch numbers of the updates applied, in order
  errLog,        \* what the uploader's catch handlers logged
  fn,            \* the function exercised on its own, "" for none
  args,          \* its arguments
  out            \* <<>> until it returned, then <<result>>

vars == <<inputs, pc, program, all, diagnostics, errors, console, foundLog, failed, upPc,
          checkRunId, updates, batched, remoteRuns, remoteUpdates, errLog,
          fn, args, out>>

\* getInput('error_fail_threshold'): not given, or a non-negative integer
ThresholdInputs == {<<>>, <<0>>, <<1>>, <<5>>, <<1, 0>>}
\* getInput('repo_token'): not given, or a token
TokenInputs == {"", "ghs_token"}
\* the ids the remote gives a new check run
RunIds == {7001, 7002}

Inputs ==
  [projectFound : BOOLEAN,
   options : [incremental : BOOLEAN, composite : BOOLEAN],
   repo_token : TokenInputs,
   error_fail_threshold : ThresholdInputs,
   pull_request : BOOLEAN]

NoProgram == [syntactic |-> <<>>, options |-> <<>>, global |-> <<>>, semantic |-> <<>>]

RunIdle ==
  /\ program = NoProgram /\ all = <<>> /\ diagnostics = <<>> /\ errors = <<>> /\ console = <<>>
  /\ foundLog = <<>> /\ failed = <<>> /\ upPc = "idle" /\ checkRunId = <<>>
  /\ updates = <<>> /\ batched = <<>> /\ remoteRuns = <<>>
  /\ remoteUpdates = <<>> /\ errLog = <<>>

\* a CI run about to start
RunInit ==
  /\ inputs \in Inputs
  /\ pc = "start"
  /\ RunIdle
  /\ fn = "" /\ args = <<>> /\ out = <<>>

\* The arguments the functions are exercised on, on their own.
Items == {"x", "y"}
Chars == {"a", "\n"}
BatchArgs ==
  {[size |-> sz, inputs |-> xs] : sz \in 1..MaxSize, xs \in SeqsUpTo(Items, MaxLen)}
LocationArgs ==
  {[content |-> t, position |-> p] :
     t \in SeqsUpTo(Chars, MaxText) \cup {FileA.text, FileB.text},
     p \in 0..(MaxText + 2)}
DiagnosticArgs ==
  {[category |-> "Error", file |-> f, start |-> st, code |-> 2322,
    messageText |-> Flat("Type 'string' is not assignable")] :
     f \in {<<>>, <<FileA>>, <<FileB>>},
     st \in {<<>>} \cup {<<p>> : p \in 0..(MaxText + 2)}}

\* one function about to be called on its own
FnInit ==
  /\ inputs = [projectFound |-> FALSE,
               options |-> [incremental |-> FALSE, composite |-> FALSE],
               repo_token |-> "", error_fail_threshold |-> <<>>,
               pull_request |-> FALSE]
  /\ pc = "off"
  /\ RunIdle
  /\ \/ fn = "batch" /\ args \in BatchArgs
     \/ fn = "parseLocation" /\ args \in LocationArgs
     \/ fn = "readProperties" /\ args \in DiagnosticArgs
  /\ out = <<>>

Init == RunInit \/ FnInit

\* -------------------------------------------------------------------- main
\* main: resolveProjectPath returns null, the throw is caught, setFailed(e)
MainNoProject ==
  /\ pc = "start"
  /\ ~inputs.projectFound
  /\ failed' = Append(failed, [kind |-> "exception", count |-> 0])
  /\ pc' = "done"
  /\ UNCHANGED <<inputs, program, all, diagnostics, errors, console, foundLog, upPc,
                 checkRunId, updates, batched, remoteRuns, remoteUpdates,
                 errLog, fn, args, out>>

isIncrementalCompilation(options) == options.incremental \/ options.composite

\* mutant: the job fails when the count reaches the threshold
gateAtThreshold(count) ==
  LET errThreshold == Number(inputs.error_fail_threshold)
  IN /\ errors' = <<count>>
     /\ foundLog' = Append(foundLog, count)
     /\ failed' = IF count >= errThreshold
                  THEN Append(failed, [kind |-> "threshold", count |-> count])
                  ELSE failed

\* typecheck, from the error count on: the threshold gate
gate(count) ==
  LET errThreshold == Number(inputs.error_fail_threshold)
  IN /\ errors' = <<count>>
     /\ foundLog' = Append(foundLog, count)
     /\ failed' = IF count > errThreshold
                  THEN Append(failed, [kind |-> "threshold", count |-> count])
                  ELSE failed

\* typecheck over performIncrementalCompilation: builder.build() is the count
TypecheckIncremental ==
  /\ pc = "start"
  /\ inputs.projectFound
  /\ isIncrementalCompilation(inputs.options)
  /\ \E exitStatus \in 0..MaxExit : gate(exitStatus)
  /\ pc' = "done"
  /\ UNCHANGED <<inputs, program, all, diagnostics, console, upPc, checkRunId, updates,
                 batched, remoteRuns, remoteUpdates, errLog, fn, args, out>>

\* mutant: checks.create is issued whatever the token
uploaderStartNoTokenTest ==
  /\ upPc' = "create"
  /\ UNCHANGED <<checkRunId, updates, batched, remoteRuns, remoteUpdates,
                 errLog>>

\* uploader, up to its first await: with a token, checks.create is issued
uploaderStart ==
  /\ upPc' = IF inputs.repo_token # "" THEN "create" ELSE "resolved"
  /\ UNCHANGED <<checkRunId, updates, batched, remoteRuns, remoteUpdates,
                 errLog>>

\* typecheck over performCompilation
TypecheckFull ==
  /\ pc = "start"
  /\ inputs.projectFound
  /\ ~isIncrementalCompilation(inputs.options)
  /\ \E nSyn \in 0..MaxStage, nOpt \in 0..MaxStage, nGlob \in 0..MaxStage,
        nSem \in 0..MaxSem :
       LET prog == [syntactic |-> getSyntacticDiagnostics(nSyn),
                    options |-> getOptionsDiagnostics(nOpt),
                    global |-> getGlobalDiagnostics(nGlob),
                    semantic |-> getSemanticDiagnostics(nSem)]
           collected == collect(prog.syntactic, prog.options, prog.global,
                                prog.semantic)
           sorted == sortAndDeduplicateDiagnostics(collected)
       IN /\ program' = prog
          /\ all' = collected
          /\ diagnostics' = sorted
          /\ console' = consoleLines(sorted)
          /\ gate(Len(collected))
  /\ uploaderStart
  /\ pc' = "done"
  /\ UNCHANGED <<inputs, fn, args, out>>

\* ---------------------------------------------------------------- uploader
headSha == IF inputs.pull_request THEN "pull_request.head.sha" ELSE "context.sha"

\* the checks.update call of one batch
updateCall(id, batchOf, total) ==
  [check_run_id |-> id,
   status |-> "completed",
   conclusion |-> "success",
   summary |-> total,
   annotations |-> [i \in 1..Len(batchOf) |-> annotationOf(batchOf[i])],
   state |-> "inflight"]

\* the for loop: one update call per batch, none awaited
issueUpdates(id, batchedAnnotations, total) ==
  [k \in 1..Len(batchedAnnotations) |->
     updateCall(id, batchedAnnotations[k], total)]

\* checks.create resolves; the uploader runs on to its end
CreateResolves ==
  /\ upPc = "create"
  /\ \E id \in RunIds :
       /\ remoteRuns' = Append(remoteRuns,
            [id |-> id, name |-> "Update TypeScript error annotations",
             head_sha |-> headSha, status |-> "in_progress"])
       /\ checkRunId' = <<id>>
       /\ batched' = batch(BatchLimit, diagnostics)
       /\ updates' = issueUpdates(id, batched', Len(diagnostics))
  /\ upPc' = "resolved"
  /\ UNCHANGED <<inputs, pc, program, all, diagnostics, errors, console, foundLog,
                 failed, remoteUpdates, errLog, fn, args, out>>

\* mutant: the rejection is caught at the call and the loop still runs
CreateRejectsLoopRuns ==
  /\ upPc = "create"
  /\ errLog' = Append(errLog, "error uploading annotations")
  /\ batched' = batch(BatchLimit, diagnostics)
  /\ updates' = issueUpdates(0, batched', Len(diagnostics))
  /\ upPc' = "resolved"
  /\ UNCHANGED <<inputs, pc, program, all, diagnostics, errors, console, foundLog,
                 failed, checkRunId, remoteRuns, remoteUpdates, fn, args, out>>

\* checks.create rejects; the outer catch logs it
CreateRejects ==
  /\ upPc = "create"
  /\ errLog' = Append(errLog, "error uploading annotations")
  /\ upPc' = "resolved"
  /\ UNCHANGED <<inputs, pc, program, all, diagnostics, errors, console, foundLog,
                 failed, checkRunId, updates, batched, remoteRuns,
                 remoteUpdates, fn, args, out>>

\* the update call of batch k is applied by the remote and resolves
UpdateResolves(k) ==
  /\ updates[k].state = "inflight"
  /\ updates' = [updates EXCEPT ![k].state = "resolved"]
  /\ remoteUpdates' = Append(remoteUpdates, k)
  /\ remoteRuns' = [i \in 1..Len(remoteRuns) |->
                      IF remoteRuns[i].id = updates[k].check_run_id
                      THEN [remoteRuns[i] EXCEPT !.status = updates[k].status]
                      ELSE remoteRuns[i]]
  /\ UNCHANGED <<inputs, pc, program, all, diagnostics, errors, console, foundLog,
                 failed, upPc, checkRunId, batched, errLog, fn, args, out>>

\* mutant: no .catch on the update call; the rejection fails the job
UpdateRejectsUncaught(k) ==
  /\ updates[k].state = "inflight"
  /\ updates' = [updates EXCEPT ![k].state = "unhandled"]
  /\ failed' = Append(failed, [kind |-> "exception", count |-> 0])
  /\ UNCHANGED <<inputs, pc, program, all, diagnostics, errors, console, foundLog,
                 upPc, checkRunId, batched, remoteRuns, remoteUpdates, errLog,
                 fn, args, out>>

\* the update call of batch k rejects; its .catch logs it
UpdateRejects(k) ==
  /\ updates[k].state = "inflight"
  /\ updates' = [updates EXCEPT ![k].state = "caught"]
  /\ errLog' = Append(errLog, "upload fetch err")
  /\ UNCHANGED <<inputs, pc, program, all, diagnostics, errors, console, foundLog,
                 failed, upPc, checkRunId, batched, remoteRuns,
                 remoteUpdates, fn, args, out>>

UpdateSettles ==
  \E k \in 1..Len(updates) : UpdateResolves(k) \/ UpdateRejects(k)

\* ------------------------------------------------ the functions on their own
runVars == <<inputs, pc, program, all, diagnostics, errors, console, foundLog,
             failed, upPc, checkRunId, updates, batched, remoteRuns,
             remoteUpdates, errLog>>

CallBatch ==
  /\ fn = "batch" /\ out = <<>>
  /\ out' = <<batch(args.size, args.inputs)>>
  /\ UNCHANGED <<runVars, fn, args>>

CallParseLocation ==
  /\ fn = "parseLocation" /\ out = <<>>
  /\ out' = <<parseLocation(args.content, args.position)>>
  /\ UNCHANGED <<runVars, fn, args>>

CallReadProperties ==
  /\ fn = "readProperties" /\ out = <<>>
  /\ out' = <<readProperties(args)>>
  /\ UNCHANGED <<runVars, fn, args>>

Next ==
  \/ CallBatch
  \/ CallParseLocation
  \/ CallReadProperties
  \/ MainNoProject
  \/ TypecheckIncremental
  \/ TypecheckFull
  \/ CreateResolves
  \/ CreateRejects
  \/ UpdateSettles

Spec == Init /\ [][Next]_vars

\* ================================================================== claims
Min(a, b) == IF a < b THEN a ELSE b
Max(S) == CHOOSE m \in S : \A x \in S : x <= m
InFlight == {k \in 1..Len(updates) : updates[k].state = "inflight"}
Caught == {k \in 1..Len(updates) : updates[k].state = "caught"}
Logged(line) == {i \in 1..Len(errLog) : errLog[i] = line}
BatchReturned == fn = "batch" /\ out # <<>>
UploaderBatched == upPc = "resolved" /\ checkRunId # <<>>
FullRun ==
  pc = "done" /\ inputs.projectFound /\ ~isIncrementalCompilation(inputs.options)

\* C1: batch never produces an empty batch: zero batches for an empty input,
\* exactly length/size batches for an input whose length is a positive multiple
\* of size, and so no check-run update carries an empty annotation list.
C1_NoEmptyBatch ==
  UploaderBatched =>
    LET n == Len(diagnostics)
    IN /\ \A k \in 1..Len(batched) : batched[k] # <<>>
       /\ n = 0 => Len(batched) = 0
       /\ (n > 0 /\ n % BatchLimit = 0) => Len(batched) = n \div BatchLimit
       /\ \A k \in 1..Len(updates) : updates[k].annotations # <<>>

\* C2: for every input and every size >= 1 the batches of batch(size, inputs),
\* concatenated in order, are the input, and no batch is longer than size; the
\* annotations of the update calls, in batch order, are the annotations of the
\* diagnostics in the diagnostics' order.
C2_BatchesPreserveOrder ==
  /\ BatchReturned =>
       /\ Concat(out[1]) = args.inputs
       /\ \A k \in 1..Len(out[1]) : Len(out[1][k]) <= args.size
  /\ UploaderBatched =>
       /\ Concat(batched) = diagnostics
       /\ \A k \in 1..Len(batched) : Len(batched[k]) <= BatchLimit
       /\ Len(updates) = Len(batched)
       /\ Concat([k \in 1..Len(updates) |-> updates[k].annotations])
            = [i \in 1..Len(diagnostics) |-> annotationOf(diagnostics[i])]

C2_Witness ==
  /\ UploaderBatched
  /\ Len(batched) >= 3
  /\ Len(batched[1]) = BatchLimit /\ Len(batched[3]) > 0
  /\ \E i \in 1..(Len(diagnostics) - 1) : diagnostics[i].code > diagnostics[i + 1].code

\* C3: the update calls go out one at a time: never two of them in flight at
\* once, and the remote applies them in batch order.
C3_OneUpdateAtATime ==
  /\ Cardinality(InFlight) <= 1
  /\ \A i \in 1..Len(remoteUpdates), j \in 1..Len(remoteUpdates) :
       i < j => remoteUpdates[i] < remoteUpdates[j]

\* C4: a rejected update call is caught and logged and aborts nothing: an
\* update call is issued for every batch, every rejection is logged once, the
\* uploader has resolved and no rejection marks the job as failed.
C4_UpdateFailureContained ==
  /\ \A k \in 1..Len(updates) :
       updates[k].state \in {"inflight", "resolved", "caught"}
  /\ Cardinality(Logged("upload fetch err")) = Cardinality(Caught)
  /\ updates # <<>> =>
       /\ upPc = "resolved"
       /\ Len(updates) = Len(batched)
  /\ \A i \in 1..Len(failed) :
       failed[i].kind = "exception" => ~inputs.projectFound

C4_Witness ==
  /\ Len(updates) >= 3
  /\ updates[2].state = "caught"
  /\ updates[1].state = "resolved" /\ updates[3].state = "resolved"
  /\ upPc = "resolved" /\ failed = <<>>

\* the threshold of each error_fail_threshold input, 0 when it is not given
ThresholdOf(input) ==
  CASE input = <<>> -> 0
    [] input = <<0>> -> 0
    [] input = <<1>> -> 1
    [] input = <<5>> -> 5
    [] input = <<1, 0>> -> 10

\* C5: typecheck marks the job as failed exactly when the count is greater
\* than the threshold, and logs the "Found N errors!" line either way.
C5_ThresholdGate ==
  (pc = "done" /\ inputs.projectFound) =>
    LET threshold == ThresholdOf(inputs.error_fail_threshold)
    IN /\ errors # <<>>
       /\ ~isIncrementalCompilation(inputs.options) => errors[1] = Len(all)
       /\ foundLog = <<errors[1]>>
       /\ failed # <<>> <=> errors[1] > threshold
       /\ failed # <<>> => failed = <<[kind |-> "threshold", count |-> errors[1]]>>

C5_Witness ==
  /\ FullRun
  /\ inputs.error_fail_threshold = <<5>>
  /\ errors = <<5>>
  /\ foundLog = <<5>>
  /\ failed = <<>>

\* C6: parseLocation returns line 1 + the number of newlines at indices below
\* the offset and the column counted from the last such newline (or the start
\* of the text); an offset past the end counts as the end.
C6_ParseLocation ==
  (fn = "parseLocation" /\ out # <<>>) =>
    LET content == args.content
        stop == Min(args.position, Len(content))
        newlines == {i \in 1..stop : content[i] = "\n"}
        lastNewline == IF newlines = {} THEN 0 ELSE Max(newlines)
    IN /\ out[1].line = 1 + Cardinality(newlines)
       /\ out[1].column = stop - lastNewline

C6_Witness ==
  /\ fn = "parseLocation"
  /\ args = [content |-> <<"a", "\n", "b", "b", "\n", "c", "c", "c">>, position |-> 4]
  /\ out = <<[line |-> 2, column |-> 2]>>

\* C7: without a token the uploader makes no remote call, resolves without an
\* error, and the job is failed only for the threshold or a missing project.
C7_NoTokenNoUpload ==
  inputs.repo_token = "" =>
    /\ upPc \in {"idle", "resolved"}
    /\ remoteRuns = <<>> /\ remoteUpdates = <<>>
    /\ updates = <<>> /\ checkRunId = <<>>
    /\ errLog = <<>>
    /\ \A i \in 1..Len(failed) :
         \/ failed[i].kind = "exception" /\ ~inputs.projectFound
         \/ /\ failed[i].kind = "threshold"
            /\ failed[i].count > ThresholdOf(inputs.error_fail_threshold)

C7_Witness ==
  /\ FullRun
  /\ inputs.repo_token = ""
  /\ Len(diagnostics) > BatchLimit
  /\ upPc = "resolved"

\* C8: readProperties gives no file, line or column for a diagnostic without a
\* file, the file path alone for a file without an offset, and the path, line
\* and column of parseLocation for a file with an offset, offset 0 included.
C8_ReadProperties ==
  (fn = "readProperties" /\ out # <<>>) =>
    LET d == args
        props == out[1]
    IN /\ d.file = <<>> => DOMAIN props = {}
       /\ (d.file # <<>> /\ d.start = <<>>) =>
            /\ DOMAIN props = {"file"}
            /\ props.file = d.file[1].fileName
       /\ (d.file # <<>> /\ d.start # <<>>) =>
            /\ DOMAIN props = {"file", "line", "col"}
            /\ props.file = d.file[1].fileName
            /\ props.line = ToString(parseLocation(d.file[1].text, d.start[1]).line)
            /\ props.col = ToString(parseLocation(d.file[1].text, d.start[1]).column)

\* C9: the collected diagnostics are the syntactic ones if there are any, else
\* the options and global ones together if there are any, else the semantic
\* ones; no semantic diagnostic is collected next to one of an earlier stage.
C9_FallbackChain ==
  FullRun =>
    LET early == Range(program.options) \cup Range(program.global)
    IN /\ program.syntactic # <<>> => all = program.syntactic
       /\ (program.syntactic = <<>> /\ early # {}) =>
            /\ Range(all) = early
            /\ Len(all) = Len(program.options) + Len(program.global)
       /\ (program.syntactic = <<>> /\ early = {}) => all = program.semantic
       /\ (program.syntactic # <<>> \/ early # {}) =>
            Range(all) \cap Range(program.semantic) = {}
       /\ \/ Range(all) \subseteq Range(program.syntactic)
          \/ Range(all) \subseteq early
          \/ Range(all) \subseteq Range(program.semantic)

C9_Witness ==
  /\ FullRun
  /\ program.syntactic = <<>>
  /\ program.options # <<>> /\ program.global # <<>>
  /\ program.semantic # <<>>
  /\ Len(all) = Len(program.options) + Len(program.global)

\* C10: the check run is created in progress before any update is issued,
\* every update carries the id the creation returned, and a failed creation
\* leaves no update issued and the uploader resolved.
C10_CreateBeforeUpdate ==
  /\ upPc \in {"idle", "create"} =>
       updates = <<>> /\ remoteUpdates = <<>> /\ remoteRuns = <<>>
  /\ (remoteRuns # <<>> /\ remoteUpdates = <<>>) =>
       \A i \in 1..Len(remoteRuns) : remoteRuns[i].status = "in_progress"
  /\ updates # <<>> =>
       /\ checkRunId # <<>>
       /\ \E i \in 1..Len(remoteRuns) : remoteRuns[i].id = checkRunId[1]
       /\ \A k \in 1..Len(updates) : updates[k].check_run_id = checkRunId[1]
  /\ Logged("error uploading annotations") # {} =>
       /\ updates = <<>> /\ remoteUpdates = <<>>
       /\ upPc = "resolved"
       /\ \A i \in 1..Len(failed) : failed[i].kind = "threshold"

C10_Witness ==
  /\ upPc = "resolved"
  /\ checkRunId # <<>>
  /\ Len(remoteUpdates) >= 2
  /\ \A k \in 1..Len(updates) : updates[k].check_run_id = checkRunId[1]

====
